---- MODULE Spec2Model ----
(***************************************************************************)
(* Symbolic container values of torch/_dynamo/variables/dicts.py:          *)
(* ConstDictVariable, its _HashableTracker key wrapper and                 *)
(* DefaultDictVariable, as a state machine over a heap of container value  *)
(* objects, the interpreter's live references to them and the record of    *)
(* the last dispatched call.                                               *)
(***************************************************************************)
EXTENDS Integers, Sequences, FiniteSets, TLC

VARIABLES
    heap,   \* object id -> container value object (VariableTracker instance)
    refs,   \* the interpreter's live references: name -> object id
    last    \* the last dispatched call: name, arguments, outcome, collaborator calls

vars == <<heap, refs, last>>

(***************************************************************************)
(* Bounds of the model.                                                    *)
(***************************************************************************)
\* entries a container may grow to
MaxLen == 2

(***************************************************************************)
(* VariableTracker values.  Every value has the same four fields so that   *)
(* values of different kinds can be compared.                              *)
(***************************************************************************)
VT(kind, ty, val, items) == [kind |-> kind, ty |-> ty, val |-> val, items |-> items]

\* ConstantVariable.create(value): ty is the Python type of the constant
Const(ty, val) == VT("ConstantVariable", ty, val, <<>>)
\* TensorVariable whose proxy node carries example_value fake tensor number id
Tensor(id) == VT("TensorVariable", "fake", id, <<>>)
\* TensorVariable whose proxy node has no example_value
TensorNoExample == VT("TensorVariable", "none", 0, <<>>)
TupleVar(items) == VT("TupleVariable", "", 0, items)
\* ListVariable object number id
ListVar(id) == VT("ListVariable", "", id, <<>>)
\* a reference to the container value object oid, as an argument or a result
DictRef(oid) == VT("ConstDictVariable", "ref", oid, <<>>)
\* DictKeys / DictValues view over the container value object oid
ViewRef(kv, oid) == VT("DictView", kv, oid, <<>>)
\* no value: the call raised
NoValue == VT("NoValue", "", 0, <<>>)
\* the value tx.replace_all returns: the new snapshot, whose object id the
\* interpreter fills in
NewSnapshot == DictRef(0)
\* arguments of ConstDictVariable.__contains__ that are not VariableTrackers
PyLiteral(ty, val) == VT("literal", ty, val, <<>>)
PyObject == VT("object", "", 0, <<>>)

PyTrue == Const("bool", 1)
PyFalse == Const("bool", 0)
PyNone == Const("NoneType", 0)
PyBool(b) == IF b THEN PyTrue ELSE PyFalse

K1 == Const("int", 1)
K2 == Const("int", 2)
KT == PyTrue
KS == Const("str", 1)
TA == Tensor(1)
TB == Tensor(2)
P1 == TupleVar(<<K1>>)
PT == TupleVar(<<KT>>)
PE == TupleVar(<<>>)
P12 == TupleVar(<<K1, K2>>)
PP1 == TupleVar(<<P1>>)
PTA == TupleVar(<<TA>>)
LV == ListVar(0)
PLV == TupleVar(<<LV>>)
V7 == Const("int", 7)

\* a guard: a predicate descriptor over a value
Guard(kind, key, invert) == [kind |-> kind, key |-> key, invert |-> invert]

\* guards a value carries: a traced tensor carries its TENSOR_MATCH guard
RECURSIVE GuardsOf(_)
GuardsOf(vt) ==
    IF vt.kind = "TensorVariable" THEN {Guard("TENSOR_MATCH", vt, FALSE)}
    ELSE IF vt.kind = "TupleVariable"
    THEN UNION {GuardsOf(vt.items[i]) : i \in DOMAIN vt.items}
    ELSE {}

(***************************************************************************)
(* is_hashable and ConstDictVariable._HashableTracker                      *)
(***************************************************************************)
\* a test that takes every value for hashable
is_hashable_always(x) == TRUE

RECURSIVE is_hashable(_)
is_hashable(x) ==
    IF x.kind = "TensorVariable" THEN x.ty = "fake"
    ELSE IF x.kind = "TupleVariable"
    THEN \A i \in DOMAIN x.items : is_hashable(x.items[i])
    ELSE x.kind \in {"BuiltinVariable", "SymNodeVariable", "ConstantVariable",
                     "EnumVariable", "MethodWrapperVariable"}

\* a Python value: pk is its type, val its value (or the identity of a fake tensor)
PyVal(pk, val, items) == [pk |-> pk, val |-> val, items |-> items]

RECURSIVE underlying_value(_)
underlying_value(vt) ==
    IF vt.kind = "TensorVariable" THEN PyVal("FakeTensor", vt.val, <<>>)
    ELSE IF vt.kind = "TupleVariable"
    THEN PyVal("tuple", 0, [i \in DOMAIN vt.items |-> underlying_value(vt.items[i])])
    ELSE PyVal(vt.ty, vt.val, <<>>)

\* Python's hash of a projected value, 16 bits wide
RECURSIVE PyHash(_)
RECURSIVE TupleHash(_, _, _)
TupleHash(items, i, acc) ==
    IF i > Len(items) THEN acc
    ELSE TupleHash(items, i + 1, (acc * 31 + PyHash(items[i])) % 65536)

PyHash(u) ==
    IF u.pk = "tuple" THEN TupleHash(u.items, 1, 7)
    ELSE IF u.pk = "FakeTensor" THEN 100 + u.val
    ELSE IF u.pk = "str" THEN 50 + u.val
    ELSE u.val

Hashable_hash(vt) == PyHash(underlying_value(vt))

\* _eq_impl(a, b) over projected values: "True", "False", or "NameError" (the
\* generator over a pair of non-empty tuples of one length reads the name
\* _eq_impl, which is bound neither in the function nor in the module)
eq_impl(a, b) ==
    IF a.pk # b.pk THEN "False"
    ELSE IF a.pk = "tuple"
    THEN IF Len(a.items) # Len(b.items) THEN "False"
         ELSE IF Len(a.items) = 0 THEN "True"
         ELSE "NameError"
    ELSE IF a.val = b.val THEN "True" ELSE "False"

\* _HashableTracker.__eq__(self, other), both wrappers
Hashable_eq(k1, k2) == eq_impl(underlying_value(k1), underlying_value(k2))

(***************************************************************************)
(* The ordered map self.items: a sequence of entries [k, w, v]; k is the   *)
(* wrapped VariableTracker, v the bound value, and w the identity of the   *)
(* wrapper object (0 where identity cannot be observed: only a comparison  *)
(* of non-empty tuples behaves differently on one object and on two).      *)
(***************************************************************************)
Entry(k, w, v) == [k |-> k, w |-> w, v |-> v]

NeedsIdentity(k) == k.kind = "TupleVariable" /\ Len(k.items) > 0

\* dict lookup of wrapper (k, w): the index of the entry found, 0 when absent,
\* -1 when a comparison raised.  Entries are probed in insertion order; an entry
\* is compared only when the hashes agree, and the same object matches without
\* a call of __eq__.
RECURSIVE DictFindFrom(_, _, _, _)
DictFindFrom(items, k, w, i) ==
    IF i > Len(items) THEN 0
    ELSE IF Hashable_hash(items[i].k) # Hashable_hash(k)
    THEN DictFindFrom(items, k, w, i + 1)
    ELSE IF w # 0 /\ items[i].w = w THEN i
    ELSE LET e == Hashable_eq(items[i].k, k) IN
         IF e = "True" THEN i
         ELSE IF e = "NameError" THEN -1
         ELSE DictFindFrom(items, k, w, i + 1)

DictFind(items, k, w) == DictFindFrom(items, k, w, 1)

RemoveAt(s, i) == [j \in 1..(Len(s) - 1) |-> IF j < i THEN s[j] ELSE s[j + 1]]

\* d[k] = v that moves a key it overwrites to the end
DictStore_move_to_end(items, k, w, v) ==
    LET f == DictFind(items, k, w) IN
    IF f = -1 THEN [err |-> TRUE, items |-> items]
    ELSE IF f > 0
    THEN [err |-> FALSE, items |-> Append(RemoveAt(items, f), Entry(items[f].k, items[f].w, v))]
    ELSE [err |-> FALSE, items |-> Append(items, Entry(k, w, v))]

\* d[k] = v on an OrderedDict: [err, items]
DictStore(items, k, w, v) ==
    LET f == DictFind(items, k, w) IN
    IF f = -1 THEN [err |-> TRUE, items |-> items]
    ELSE IF f > 0 THEN [err |-> FALSE, items |-> [items EXCEPT ![f].v = v]]
    ELSE [err |-> FALSE, items |-> Append(items, Entry(k, w, v))]

\* d.update(other): d[k] = v for every entry of other, in other's order, with
\* other's own wrapper objects
RECURSIVE DictUpdateFrom(_, _, _)
DictUpdateFrom(acc, other, i) ==
    IF acc.err \/ i > Len(other) THEN acc
    ELSE DictUpdateFrom(DictStore(acc.items, other[i].k, other[i].w, other[i].v),
                        other, i + 1)

DictUpdate(items, other) == DictUpdateFrom([err |-> FALSE, items |-> items], other, 1)

Keys(items) == [i \in DOMAIN items |-> items[i].k]

(***************************************************************************)
(* Container value objects.                                                *)
(***************************************************************************)
Obj(cls, user_cls, items, mutable_local, default_factory, guards) ==
    [cls |-> cls, user_cls |-> user_cls, items |-> items,
     mutable_local |-> mutable_local, default_factory |-> default_factory,
     guards |-> guards]

\* default_factory values: None, BuiltinVariable(list), a user function
FNone == VT("None", "", 0, <<>>)
FList == VT("BuiltinVariable", "list", 0, <<>>)
FUser == VT("UserFunctionVariable", "", 0, <<>>)

\* VariableTracker.propagate over the keys and values of a map
ItemGuards(items) ==
    UNION {GuardsOf(items[i].k) \cup GuardsOf(items[i].v) : i \in DOMAIN items}

\* guards of an argument: a container argument carries its object's guards
ArgGuards(h, a) == IF a.kind = "ConstDictVariable" THEN h[a.val].guards ELSE GuardsOf(a)

\* options = VariableTracker.propagate(self, args, kwargs.values())
propagate(h, self, args) == self.guards \cup UNION {ArgGuards(h, args[i]) : i \in DOMAIN args}

\* ConstDictVariable.__init__: the guards of keys and values join the object's
ConstDict_init(cls, user_cls, items, mutable_local, default_factory, guards) ==
    Obj(cls, user_cls, items, mutable_local, default_factory,
        guards \cup ItemGuards(items))

\* SetVariable._default_value(): ConstantVariable.create(None)
SetVariable_default_value == PyNone

\* a SetVariable.__init__ that hands its items to the base class as they are
SetVariable_init_keep_values(user_cls, items, mutable_local, guards) ==
    ConstDict_init("SetVariable", user_cls, items, mutable_local, FNone, guards)

\* SetVariable.__init__: items = dict.fromkeys(items, _default_value()), every
\* key kept in its place and bound to the one sentinel
SetVariable_init(user_cls, items, mutable_local, guards) ==
    ConstDict_init("SetVariable", user_cls,
                   [i \in DOMAIN items |->
                       Entry(items[i].k, items[i].w, SetVariable_default_value)],
                   mutable_local, FNone, guards)

\* self.modifed(items, **options): a copy of self with different items, made by
\* the constructor of self's own class
modifed(self, items, options) ==
    IF self.cls = "SetVariable"
    THEN SetVariable_init(self.user_cls, items, self.mutable_local,
                          self.guards \cup options)
    ELSE ConstDict_init(self.cls, self.user_cls, items, self.mutable_local,
                        self.default_factory, self.guards \cup options)

\* newval = self.items, without the copy: the change lands in self as well
WriteInPlace(items, newItems) == [old |-> newItems, new |-> newItems]

\* newval = collections.OrderedDict(self.items), then the change is applied to
\* newval: what self.items holds afterwards, and what the new snapshot gets
CopyOnWrite(items, newItems) == [old |-> items, new |-> newItems]

\* the outcome of a call: status "ok" or the exception raised, the value returned
\* and its guards, whether a new snapshot was handed to tx.replace_all, the items
\* of self and of the new snapshot afterwards, the guards passed to modifed, and
\* the number of calls of default_factory.call_function, and the calls handed to
\* tx.inline_user_function_return
Eff(status, result, rguards, mutated, cow, options, factory) ==
    [status |-> status, result |-> result, rguards |-> rguards, mutated |-> mutated,
     old |-> cow.old, new |-> cow.new, options |-> options, factory |-> factory,
     inlined |-> <<>>]

Raise(self, exc) == Eff(exc, NoValue, {}, FALSE, CopyOnWrite(self.items, self.items), {}, 0)

Return(self, result, rguards) ==
    Eff("ok", result, rguards, FALSE, CopyOnWrite(self.items, self.items), {}, 0)

\* the mutating branches without their test of mutable_local
mutable_local_ignored(self) == TRUE

\* the test `and self.mutable_local` of the mutating branches
mutable_local(self) == self.mutable_local

\* the identity of a wrapper made in this call
W(k, fw) == IF NeedsIdentity(k) THEN fw ELSE 0

\* VariableTracker.call_method of the base class: no symbolic semantics
VariableTracker_call_method(self, name, args) == Raise(self, "Unsupported")

\* ConstDictVariable.getitem_const(arg)
getitem_const(h, self, arg, fw) ==
    IF ~is_hashable(arg) THEN Raise(self, "AssertionError")
    ELSE LET f == DictFind(self.items, arg, W(arg, fw)) IN
         IF f = -1 THEN Raise(self, "NameError")
         ELSE IF f = 0 THEN Raise(self, "KeyError")
         ELSE Return(self, self.items[f].v,
                     GuardsOf(self.items[f].v) \cup self.guards \cup GuardsOf(arg))

\* the pairs of 'items' with key and value changed over
ItemsTuple_value_first(items) ==
    TupleVar([i \in DOMAIN items |-> TupleVar(<<items[i].v, items[i].k>>)])

\* the items() result: a tuple of (key, value) tuples
ItemsTuple(items) == TupleVar([i \in DOMAIN items |-> TupleVar(<<items[i].k, items[i].v>>)])

\* ConstDictVariable.call_method(tx, name, args, kwargs) on object o
ConstDict_call_method(h, o, name, args, fw) ==
    LET self == h[o]
        options == propagate(h, self, args)
        arg_hashable == Len(args) > 0 /\ is_hashable(args[1])
        f == DictFind(self.items, args[1], W(args[1], fw))
    IN
    IF name = "__getitem__" THEN getitem_const(h, self, args[1], fw)
    ELSE IF name = "items" THEN Return(self, ItemsTuple(self.items), options)
    ELSE IF name = "keys" THEN Return(self, ViewRef("keys", o), options)
    ELSE IF name = "values" THEN Return(self, ViewRef("values", o), options)
    ELSE IF name = "__len__" THEN Return(self, Const("int", Len(self.items)), options)
    ELSE IF name = "__setitem__" /\ arg_hashable /\ mutable_local(self)
    THEN LET st == DictStore(self.items, args[1], W(args[1], fw), args[2]) IN
         IF st.err THEN Raise(self, "NameError")
         ELSE Eff("ok", NewSnapshot, options, TRUE,
                  CopyOnWrite(self.items, st.items), options, 0)
    ELSE IF name \in {"pop", "get"} /\ arg_hashable /\ f = -1
    THEN Raise(self, "NameError")
    ELSE IF name \in {"pop", "get"} /\ arg_hashable /\ f = 0 /\ Len(args) = 2
    THEN Return(self, args[2], GuardsOf(args[2]) \cup options)
    ELSE IF name = "pop" /\ arg_hashable /\ mutable_local(self)
    THEN IF f = 0 THEN Raise(self, "KeyError")
         ELSE Eff("ok", self.items[f].v, GuardsOf(self.items[f].v) \cup options, TRUE,
                  CopyOnWrite(self.items, RemoveAt(self.items, f)), options, 0)
    ELSE IF /\ name = "update"
            /\ Len(args) > 0
            /\ args[1].kind = "ConstDictVariable"
            /\ mutable_local(self)
    THEN LET st == DictUpdate(self.items, h[args[1].val].items) IN
         IF st.err THEN Raise(self, "NameError")
         ELSE Eff("ok", NewSnapshot, options, TRUE,
                  CopyOnWrite(self.items, st.items), options, 0)
    ELSE IF name \in {"get", "__getattr__"} /\ arg_hashable /\ f = -1
    THEN Raise(self, "NameError")
    ELSE IF name \in {"get", "__getattr__"} /\ arg_hashable /\ f > 0
    THEN Return(self, self.items[f].v, GuardsOf(self.items[f].v) \cup options)
    ELSE IF name = "__contains__" /\ Len(args) > 0
    THEN IF arg_hashable /\ f = -1 THEN Raise(self, "NameError")
         ELSE Return(self, PyBool(arg_hashable /\ f > 0), options)
    ELSE VariableTracker_call_method(self, name, args)

\* default_factory.call_function(tx, [], {}): list() builds a new list object
\* (number fl); a user function returns what its inlined body returns (uret)
factory_call(factory, fl, uret) == IF factory = FList THEN ListVar(fl) ELSE uret

\* DefaultDictVariable.call_method(tx, name, args, kwargs) on object o
DefaultDict_call_method(h, o, name, args, fw, fl, uret) ==
    LET self == h[o]
        options == propagate(h, self, args)
        k == args[1]
        f == DictFind(self.items, k, W(k, fw))
    IN
    IF name = "__getitem__"
    THEN IF ~is_hashable(k) THEN Raise(self, "AssertionError")
         ELSE IF f = -1 THEN Raise(self, "NameError")
         ELSE IF f > 0 THEN getitem_const(h, self, k, fw)
         ELSE IF self.default_factory = FNone THEN Raise(self, "KeyError")
         ELSE LET default_var == factory_call(self.default_factory, fl, uret)
                  st == DictStore(self.items, k, W(k, fw), default_var)
              IN Eff("ok", default_var, GuardsOf(default_var), TRUE,
                     CopyOnWrite(self.items, st.items), options, 1)
    ELSE ConstDict_call_method(h, o, name, args, fw)

\* SetVariable.getitem_const(arg)
SetVariable_getitem_const(self, arg) == Raise(self, "RuntimeError")

\* SetVariable.call_method(tx, name, args, kwargs) on object o; pick is the
\* position in self.items of the key that set_items.pop() happens to take
SetVariable_call_method(h, o, name, args, fw, pick) ==
    LET self == h[o] IN
    IF name = "add"
    THEN IF Len(args) # 1 THEN Raise(self, "AssertionError")
         ELSE ConstDict_call_method(h, o, "__setitem__",
                                    <<args[1], SetVariable_default_value>>, fw)
    ELSE IF name = "pop"
    THEN IF Len(args) # 0 THEN Raise(self, "AssertionError")
         ELSE IF Len(self.items) = 0 THEN Raise(self, "KeyError")
         ELSE LET result == self.items[pick].k
                  eff == ConstDict_call_method(h, o, "pop", <<result>>, fw)
              IN IF eff.status # "ok" THEN eff
                 ELSE [eff EXCEPT !.result = result, !.rguards = GuardsOf(result)]
    ELSE IF name = "__getitem__" THEN SetVariable_getitem_const(self, args[1])
    ELSE ConstDict_call_method(h, o, name, args, fw)

(***************************************************************************)
(* The record adapters DataClassVariable and CustomizedDictVariable.       *)
(* user_cls names a class of the traced program: its dataclass fields, in  *)
(* declaration order, and what getattr(user_cls, name) finds.              *)
(***************************************************************************)
\* a field without a default, and the defaults None, 0 and a non-literal object
Required == VT("required", "", 0, <<>>)
RawNone == PyLiteral("NoneType", 0)
RawZero == PyLiteral("int", 0)

Field(name, default) == [name |-> name, default |-> default]

FieldNames == <<"a", "b", "c">>

\* ConstantVariable.create(key) for a field or keyword name
NameConst(name) == Const("str", CHOOSE i \in DOMAIN FieldNames : FieldNames[i] = name)

\* dataclasses.is_dataclass(user_cls) that never recognises a dataclass
is_dataclass_never(user_cls) == FALSE

\* dataclasses.is_dataclass(user_cls): Rec3, RecNone and RecObj are ModelOutput
\* dataclasses, MyDict is a subclass of OrderedDict with the inherited __init__
is_dataclass(user_cls) == user_cls \in {"Rec3", "RecNone", "RecObj"}

\* dataclasses.fields(user_cls)
fields(user_cls) ==
    IF user_cls = "Rec3"
    THEN <<Field("a", Required), Field("b", Required), Field("c", RawZero)>>
    ELSE IF user_cls = "RecNone"
    THEN <<Field("a", Required), Field("b", RawNone), Field("c", RawNone)>>
    ELSE IF user_cls = "RecObj"
    THEN <<Field("a", Required), Field("b", PyObject)>>
    ELSE <<>>

\* a keyword argument name=v of a call
Kw(name, v) == VT("kwarg", name, 0, <<v>>)

KwIndex(kwargs, name) ==
    IF \E j \in DOMAIN kwargs : kwargs[j].ty = name
    THEN CHOOSE j \in DOMAIN kwargs : kwargs[j].ty = name
    ELSE 0

FieldIndex(fs, name) ==
    IF \E i \in DOMAIN fs : fs[i].name = name
    THEN CHOOSE i \in DOMAIN fs : fs[i].name = name
    ELSE 0

\* inspect.signature(user_cls).bind(*args, **kwargs) and apply_defaults():
\* [err, arguments], arguments in the order of the fields
bind(fs, args, kwargs) ==
    LET given(i) == i <= Len(args) \/ KwIndex(kwargs, fs[i].name) # 0
        err == \/ Len(args) > Len(fs)
               \/ \E j \in DOMAIN kwargs :
                     \/ FieldIndex(fs, kwargs[j].ty) = 0
                     \/ FieldIndex(fs, kwargs[j].ty) <= Len(args)
               \/ \E i \in DOMAIN fs : ~given(i) /\ fs[i].default = Required
    IN [err |-> err,
        arguments |-> [i \in DOMAIN fs |->
            IF i <= Len(args) THEN args[i]
            ELSE IF KwIndex(kwargs, fs[i].name) # 0
            THEN kwargs[KwIndex(kwargs, fs[i].name)].items[1]
            ELSE fs[i].default]]

\* isinstance(x, VariableTracker), for a call argument or a raw default
IsVariableTracker(x) == x.kind \notin {"literal", "object", "required"}

\* the outcome of a constructor call: status and the items handed to cls(...)
Made(status, items) == [status |-> status, items |-> items]

\* DataClassVariable.create(user_cls, args, kwargs, options), include_none False:
\* the loop over the fields keeps the VariableTrackers and asserts that every
\* other bound value is None
DataClass_create(user_cls, args, kwargs) ==
    LET fs == fields(user_cls)
        bound == bind(fs, args, kwargs)
        kept == {i \in DOMAIN fs : IsVariableTracker(bound.arguments[i])}
        IsKept(f) == IsVariableTracker(bound.arguments[FieldIndex(fs, f.name)])
        keptFields == SelectSeq(fs, IsKept)
        items == [j \in DOMAIN keptFields |->
                    Entry(NameConst(keptFields[j].name), 0,
                          bound.arguments[FieldIndex(fs, keptFields[j].name)])]
    IN IF bound.err THEN Made("TypeError", <<>>)
       ELSE IF \E i \in DOMAIN fs : i \notin kept /\ bound.arguments[i] # RawNone
       THEN Made("AssertionError", <<>>)
       ELSE IF Len(items) = 1 THEN Made("KeyError", <<>>)
       ELSE Made("ok", items)

\* make_var of CustomizedDictVariable.create, and whether it can wrap x
make_var_ok(x) == IsVariableTracker(x) \/ x.kind = "literal"

make_var(x) == IF IsVariableTracker(x) THEN x ELSE Const(x.ty, x.val)

\* CustomizedDictVariable.create(user_cls, args, kwargs, options); h holds the
\* container a ConstDictVariable argument refers to
Customized_create(h, user_cls, args, kwargs) ==
    IF is_dataclass(user_cls)
    THEN LET fs == fields(user_cls)
             bound == bind(fs, args, kwargs)
         IN IF bound.err THEN Made("TypeError", <<>>)
            ELSE IF \E i \in DOMAIN fs : ~make_var_ok(bound.arguments[i])
            THEN Made("Unsupported", <<>>)
            ELSE Made("ok", [i \in DOMAIN fs |->
                                Entry(NameConst(fs[i].name), 0, make_var(bound.arguments[i]))])
    ELSE IF Len(args) = 0
    THEN Made("ok", [j \in DOMAIN kwargs |->
                        Entry(NameConst(kwargs[j].ty), 0, kwargs[j].items[1])])
    ELSE IF Len(args) = 1 /\ args[1].kind = "ConstDictVariable" /\ Len(kwargs) = 0
    THEN Made("ok", h[args[1].val].items)
    ELSE Made("Unsupported", <<>>)

\* TupleVariable.call_method '__getitem__' with a constant index
Tuple_getitem(self, values, idx, options) ==
    IF idx.kind = "ConstantVariable" /\ idx.ty = "int" /\ idx.val < Len(values)
    THEN Return(self, values[idx.val + 1], GuardsOf(values[idx.val + 1]) \cup options)
    ELSE Raise(self, "IndexError")

\* DataClassVariable.call_method(tx, name, args, kwargs) on object o
DataClass_call_method(h, o, name, args, fw) ==
    LET self == h[o]
        options == propagate(h, self, args)
        values == [i \in DOMAIN self.items |-> self.items[i].v]
    IN
    IF name = "__getitem__"
    THEN IF Len(args) # 1 THEN Raise(self, "AssertionError")
         ELSE IF args[1].kind = "ConstantVariable" /\ args[1].ty = "str"
         THEN getitem_const(h, self, args[1], fw)
         ELSE Tuple_getitem(self, values, args[1], options)
    ELSE IF name = "to_tuple"
    THEN IF Len(args) # 0 THEN Raise(self, "AssertionError")
         ELSE Return(self, TupleVar(values), options)
    ELSE IF name = "__setattr__" THEN ConstDict_call_method(h, o, "__setitem__", args, fw)
    ELSE ConstDict_call_method(h, o, name, args, fw)

\* what getattr(user_cls, name) finds: nothing ("absent"), a method of dict or
\* OrderedDict that user_cls does not override ("base"), a slot of object
\* ("object"), or a function of the user's ("user")
getattr_cls(user_cls, name) ==
    IF name \in {"keys", "pop", "__len__"} THEN "base"
    ELSE IF name = "foo" THEN "absent"
    ELSE IF name = "bar" THEN "user"
    ELSE IF is_dataclass(user_cls) THEN "user"
    ELSE IF name \in {"__getitem__", "__setitem__"} THEN "base"
    ELSE IF name = "__setattr__" THEN "object"
    ELSE "absent"

\* a call handed to tx.inline_user_function_return: the function and its arguments
InlinedCall(name, args) == VT("call", name, 0, args)

\* hasattr(fn, "__objclass__") and fn.__objclass__ in (dict, OrderedDict)
is_base_method(fn) == fn = "base"

\* CustomizedDictVariable.call_method(tx, name, args, kwargs) on object o; uret
\* is what the inlined user function returns
Customized_call_method(h, o, name, args, fw, uret) ==
    LET self == h[o]
        fn == getattr_cls(self.user_cls, name)
    IN
    IF fn = "absent" THEN Raise(self, "AttributeError")
    ELSE IF is_base_method(fn) THEN ConstDict_call_method(h, o, name, args, fw)
    ELSE IF name \in {"__getitem__", "to_tuple", "__setitem__", "__setattr__"}
    THEN [Return(self, uret, GuardsOf(uret)) EXCEPT
             !.inlined = <<InlinedCall(name, <<DictRef(o)>> \o args)>>]
    ELSE Raise(self, "Unsupported")

\* dynamic dispatch on the class of the object
call_method(h, o, name, args, fw, fl, uret) ==
    IF h[o].cls = "DefaultDictVariable"
    THEN DefaultDict_call_method(h, o, name, args, fw, fl, uret)
    ELSE IF h[o].cls = "DataClassVariable"
    THEN DataClass_call_method(h, o, name, args, fw)
    ELSE IF h[o].cls = "CustomizedDictVariable"
    THEN Customized_call_method(h, o, name, args, fw, uret)
    ELSE ConstDict_call_method(h, o, name, args, fw)

\* ConstDictVariable.__contains__(obj): obj is a Python literal (kind "literal"),
\* a VariableTracker, or some other Python object (kind "object")
ConstDict_contains(self, obj, fw) ==
    LET wrapped == IF obj.kind = "literal" THEN Const(obj.ty, obj.val) ELSE obj IN
    IF wrapped.kind = "object" THEN Raise(self, "NameError")
    ELSE IF ~is_hashable(wrapped) THEN Raise(self, "AssertionError")
    ELSE LET f == DictFind(self.items, wrapped, W(wrapped, fw)) IN
         IF f = -1 THEN Raise(self, "NameError")
         ELSE Return(self, PyBool(f > 0), {})

\* as_python_constant() of a value succeeds
RECURSIVE VT_is_python_constant(_)
VT_is_python_constant(vt) ==
    IF vt.kind = "TupleVariable"
    THEN \A i \in DOMAIN vt.items : VT_is_python_constant(vt.items[i])
    ELSE vt.kind \in {"ConstantVariable", "ListVariable"}

\* ConstDictVariable.as_python_constant() succeeds
ConstDict_as_python_constant_ok(self) ==
    \A i \in DOMAIN self.items :
        VT_is_python_constant(self.items[i].k) /\ VT_is_python_constant(self.items[i].v)

\* VariableTracker.is_python_constant: as_python_constant() does not raise
VariableTracker_is_python_constant(self) == ConstDict_as_python_constant_ok(self)

\* default_factory in [list, tuple, dict]: the Python types themselves
FactoryInTypeList(f) == f.kind = "type" /\ f.ty \in {"list", "tuple", "dict"}

\* DefaultDictVariable.is_python_constant
DefaultDict_is_python_constant(self) ==
    IF ~FactoryInTypeList(self.default_factory) /\ Len(self.items) = 0 THEN FALSE
    ELSE VariableTracker_is_python_constant(self)

is_python_constant(self) ==
    IF self.cls = "DefaultDictVariable" THEN DefaultDict_is_python_constant(self)
    ELSE VariableTracker_is_python_constant(self)

(***************************************************************************)
(* The interpreter: allocation, tx.replace_all, and the dispatch of one    *)
(* call on the container a reference holds.                                *)
(***************************************************************************)
SmallestFree(used) ==
    CHOOSE n \in 1..(Cardinality(used) + 1) :
        n \notin used /\ \A m \in 1..(n - 1) : m \in used

\* the objects some live reference holds; every other object is unreachable and
\* its identity, like those of the wrappers and values only it holds, is free
\* to be taken by a new object
Live(rf) == {rf[q] : q \in DOMAIN rf}

LiveEntries(h, rf) == UNION {{h[o].items[i] : i \in DOMAIN h[o].items} : o \in Live(rf)}

FreshOid(rf) == SmallestFree(Live(rf))

FreshW(h, rf) == SmallestFree({e.w : e \in LiveEntries(h, rf)} \ {0})

FreshList(h, rf) ==
    SmallestFree({e.v.val : e \in {x \in LiveEntries(h, rf) : x.v.kind = "ListVariable"}})

\* tx.replace_all(old, new): every live reference to old is retargeted to new
replace_all(rf, old, new) == [q \in DOMAIN rf |-> IF rf[q] = old THEN new ELSE rf[q]]

NoCall ==
    [op |-> "", target |-> 0, args |-> <<>>, status |-> "", result |-> NoValue,
     rguards |-> {}, replaced |-> <<>>, factory |-> 0, inlined |-> <<>>]

\* entries an object may grow to: a record adapter has room for one entry more
\* than its record type's fields need
Capacity(self) ==
    IF self.cls \in {"DataClassVariable", "CustomizedDictVariable"} THEN MaxLen + 1
    ELSE MaxLen

\* one call, with outcome eff, on the object o: the heap keeps the objects that
\* are still referenced and the object the call was dispatched to
Complete(o, op, args, eff) ==
    LET n == FreshOid(refs)
        rf == IF eff.mutated THEN replace_all(refs, o, n) ELSE refs
        keep == Live(rf) \cup {o}
    IN
    /\ Len(eff.new) <= Capacity(heap[o])
    /\ heap' = [i \in keep |->
                    IF eff.mutated /\ i = n THEN modifed(heap[o], eff.new, eff.options)
                    ELSE IF i = o THEN [heap[o] EXCEPT !.items = eff.old]
                    ELSE heap[i]]
    /\ refs' = rf
    /\ last' = [op |-> op, target |-> o, args |-> args, status |-> eff.status,
                result |-> IF eff.result = NewSnapshot THEN DictRef(n) ELSE eff.result,
                rguards |-> eff.rguards,
                replaced |-> IF eff.mutated THEN <<<<o, n>>>> ELSE <<>>,
                factory |-> eff.factory, inlined |-> eff.inlined]

Dispatch(r, name, args, uret) ==
    Complete(refs[r], name, args,
             call_method(heap, refs[r], name, args, FreshW(heap, refs), FreshList(heap, refs), uret))

(***************************************************************************)
(* Inputs.                                                                 *)
(***************************************************************************)
KeyPool == {K1, TA, P1}
ArgPool == KeyPool \cup {LV}
ValPool == {V7, TA}
\* what an inlined user default factory returns
UserRetPool == {V7}
DefaultPool == {PyNone}
\* keys and values of the second container
OtherKeyPool == {K1, P1}
OtherValPool == {TA}
ProbePool == ArgPool \cup {PyLiteral("int", 1), PyObject}
Factories == {FNone, FList, FUser}
\* the references calls are dispatched through
Targets == {"self"}

(***************************************************************************)
(* Operations.                                                             *)
(***************************************************************************)
GetItem == \E r \in Targets, k \in ArgPool, uret \in UserRetPool :
    Dispatch(r, "__getitem__", <<k>>, uret)

Items == \E r \in Targets : Dispatch(r, "items", <<>>, PyNone)

KeysView == \E r \in Targets : Dispatch(r, "keys", <<>>, PyNone)

ValuesView == \E r \in Targets : Dispatch(r, "values", <<>>, PyNone)

Length == \E r \in Targets : Dispatch(r, "__len__", <<>>, PyNone)

SetItem == \E r \in Targets, k \in ArgPool, v \in ValPool :
    Dispatch(r, "__setitem__", <<k, v>>, PyNone)

Pop == \E r \in Targets, k \in ArgPool, a \in {<<>>} \cup {<<d>> : d \in DefaultPool} :
    Dispatch(r, "pop", <<k>> \o a, PyNone)

Update == \E r \in Targets, a \in {DictRef(refs[q]) : q \in DOMAIN refs} \cup {LV} :
    Dispatch(r, "update", <<a>>, PyNone)

Get == \E r \in Targets, k \in ArgPool, a \in {<<>>} \cup {<<d>> : d \in DefaultPool} :
    Dispatch(r, "get", <<k>> \o a, PyNone)

Contains == \E r \in Targets, k \in ArgPool :
    Dispatch(r, "__contains__", <<k>>, PyNone)

\* the membership test `obj in container` made by the interpreter's own code
DirectContains == \E r \in Targets, obj \in ProbePool :
    Complete(refs[r], "ConstDictVariable.__contains__", <<obj>>,
             ConstDict_contains(heap[refs[r]], obj, FreshW(heap, refs)))

IsPythonConstant == \E r \in Targets :
    Complete(refs[r], "is_python_constant", <<>>,
             Return(heap[refs[r]], PyBool(is_python_constant(heap[refs[r]])), {}))

(***************************************************************************)
(* Construction.                                                           *)
(***************************************************************************)
\* the maps a container is constructed from: empty, or one entry, whose wrapper
\* (when it is a tuple's) is object number w
InitItems(ks, vs, w) == {<<>>} \cup {<<Entry(k, W(k, w), v)>> : k \in ks, v \in vs}

\* the state after constructing the container under study with one of the given
\* (class, user_cls, default_factory) combinations and a second live reference,
\* which either aliases it or holds a container of its own
InitOf(configs, aliases, oks) ==
    \E c \in configs, m \in BOOLEAN, alias \in aliases,
       items \in InitItems(KeyPool, ValPool, 1), oitems \in InitItems(oks, OtherValPool, 2) :
        /\ heap = IF alias
                  THEN 1 :> ConstDict_init(c[1], c[2], items, m, c[3], {})
                  ELSE (1 :> ConstDict_init(c[1], c[2], items, m, c[3], {}))
                       @@ (2 :> ConstDict_init("ConstDictVariable", "dict", oitems,
                                               FALSE, FNone, {}))
        /\ refs = [q \in {"self", "other"} |-> IF q = "self" \/ alias THEN 1 ELSE 2]
        /\ last = NoCall

\* a ConstDictVariable modelling a plain dict
Init == InitOf({<<"ConstDictVariable", "dict", FNone>>}, BOOLEAN, OtherKeyPool)

\* a DefaultDictVariable with any of the default factories, referenced twice
InitDefault ==
    InitOf({<<"DefaultDictVariable", "defaultdict", f>> : f \in Factories}, {TRUE}, {})

(***************************************************************************)
(* The key wrapper on its own: construction and comparison.                *)
(***************************************************************************)
EqPool == {K1, K2, KT, KS, TA, TB, P1, PT, PE, P12, PP1, PTA}
WrapPool == EqPool \cup {LV, PLV, TensorNoExample}

\* _HashableTracker(vt)
Wrap == \E vt \in WrapPool :
    /\ last' = [NoCall EXCEPT !.op = "_HashableTracker", !.args = <<vt>>,
                               !.status = IF is_hashable(vt) THEN "ok" ELSE "AssertionError"]
    /\ UNCHANGED <<heap, refs>>

\* _HashableTracker(k1) == _HashableTracker(k2)
WrapperEq == \E k1 \in EqPool, k2 \in EqPool :
    LET e == Hashable_eq(k1, k2) IN
    /\ last' = [NoCall EXCEPT !.op = "_HashableTracker.__eq__", !.args = <<k1, k2>>,
                               !.status = IF e = "NameError" THEN e ELSE "ok",
                               !.result = IF e = "NameError" THEN NoValue
                                          ELSE PyBool(e = "True")]
    /\ UNCHANGED <<heap, refs>>

InitEq == InitOf({<<"ConstDictVariable", "dict", FNone>>}, {TRUE}, {})

NextEq ==
    \/ Wrap
    \/ WrapperEq

SpecEq == InitEq /\ [][NextEq]_vars

(***************************************************************************)
(* reconstruct(codegen): the instructions the code generator ends up with, *)
(* those the method hands to codegen followed by those it returns.         *)
(***************************************************************************)
\* one instruction: opcode, numeric argument, the value or name it loads
Instr(op, n, v, name) == [op |-> op, n |-> n, v |-> v, name |-> name]

\* codegen(value): the code that loads the value
codegen(value) == <<Instr("LOAD", 0, value, "")>>

\* create_call_function(nargs, False)
create_call_function(nargs) == <<Instr("CALL_FUNCTION", nargs, NoValue, "")>>

\* the loop over self.items that loads each value before its key
RECURSIVE LoadItemsFrom_value_first(_, _)
LoadItemsFrom_value_first(items, i) ==
    IF i > Len(items) THEN <<>>
    ELSE codegen(items[i].v) \o codegen(items[i].k) \o LoadItemsFrom_value_first(items, i + 1)

\* for key, value in self.items.items(): codegen(key.vt); codegen(value)
RECURSIVE LoadItemsFrom(_, _)
LoadItemsFrom(items, i) ==
    IF i > Len(items) THEN <<>>
    ELSE codegen(items[i].k) \o codegen(items[i].v) \o LoadItemsFrom(items, i + 1)

\* ConstDictVariable.reconstruct(codegen), inherited by DefaultDictVariable
ConstDict_reconstruct(self) ==
    LET ordered == self.user_cls = "OrderedDict"
        load_cls == IF ordered
                    THEN <<Instr("LOAD_MODULE", 0, NoValue, "collections"),
                           Instr("LOAD_ATTR", 0, NoValue, "OrderedDict")>>
                    ELSE <<>>
        build == <<Instr("BUILD_MAP", Len(self.items), NoValue, "")>>
    IN load_cls \o LoadItemsFrom(self.items, 1)
       \o (IF ordered THEN build \o create_call_function(1) ELSE build)

\* Python's == on two constants as dict keys: numbers of any type by value
RECURSIVE PyConstEq(_, _)
PyConstEq(a, b) ==
    IF a.kind = "TupleVariable" \/ b.kind = "TupleVariable"
    THEN /\ a.kind = b.kind /\ Len(a.items) = Len(b.items)
         /\ \A i \in DOMAIN a.items : PyConstEq(a.items[i], b.items[i])
    ELSE /\ a.val = b.val
         /\ a.ty = b.ty \/ {a.ty, b.ty} \subseteq {"int", "bool", "float"}

\* {k.vt.as_python_constant(): v for k, v in self.items.items()}: a key equal
\* to an earlier one keeps the earlier key and place and takes the later value
RECURSIVE keys_as_python_constant_from(_, _, _)
keys_as_python_constant_from(d, items, i) ==
    IF i > Len(items) THEN d
    ELSE LET hit == {j \in DOMAIN d : PyConstEq(d[j].k, items[i].k)} IN
         keys_as_python_constant_from(
             IF hit = {} THEN Append(d, [k |-> items[i].k, v |-> items[i].v])
             ELSE [d EXCEPT ![CHOOSE j \in hit : TRUE].v = items[i].v],
             items, i + 1)

keys_as_python_constant(self) == keys_as_python_constant_from(<<>>, self.items, 1)

\* codegen.foreach(values)
RECURSIVE foreach(_, _)
foreach(values, i) ==
    IF i > Len(values) THEN <<>> ELSE codegen(values[i]) \o foreach(values, i + 1)

\* codegen.create_call_function_kw(nargs, kw_names, True)
create_call_function_kw(nargs, kw_names) ==
    <<Instr("CALL_FUNCTION_KW", nargs, TupleVar(kw_names), "")>>

\* DataClassVariable.reconstruct and CustomizedDictVariable.reconstruct
Adapter_reconstruct(self) ==
    LET d == keys_as_python_constant(self)
        keys == [j \in DOMAIN d |-> d[j].k]
    IN <<Instr("LOAD_CONST", 0, NoValue, self.user_cls)>>
       \o foreach([j \in DOMAIN d |-> d[j].v], 1)
       \o create_call_function_kw(Len(keys), keys)

IsAdapter(self) == self.cls \in {"DataClassVariable", "CustomizedDictVariable"}

\* reconstruct raises: as_python_constant() of a key that is no constant
reconstruct_raises(self) ==
    IsAdapter(self) /\ \E i \in DOMAIN self.items : ~VT_is_python_constant(self.items[i].k)

reconstruct(self) ==
    IF IsAdapter(self) THEN Adapter_reconstruct(self) ELSE ConstDict_reconstruct(self)

\* the instructions as the value a call record holds
Emitted(instrs) == VT("Instructions", "", 0, instrs)

Reconstruct == \E r \in Targets :
    Complete(refs[r], "reconstruct", <<>>,
             IF reconstruct_raises(heap[refs[r]])
             THEN Raise(heap[refs[r]], "NotImplementedError")
             ELSE Return(heap[refs[r]], Emitted(reconstruct(heap[refs[r]])), {}))

\* a plain dict, an OrderedDict or a defaultdict, referenced twice
InitRecon ==
    InitOf({<<"ConstDictVariable", "dict", FNone>>,
            <<"ConstDictVariable", "OrderedDict", FNone>>,
            <<"DefaultDictVariable", "defaultdict", FList>>}, {TRUE}, {})

NextRecon ==
    \/ SetItem
    \/ Pop
    \/ Reconstruct

SpecRecon == InitRecon /\ [][NextRecon]_vars

(***************************************************************************)
(* SetVariable: a set as a map whose values are all the sentinel.          *)
(***************************************************************************)
SetDispatch(r, name, args, pick) ==
    Complete(refs[r], name, args,
             SetVariable_call_method(heap, refs[r], name, args, FreshW(heap, refs), pick))

SetAdd == \E r \in Targets, k \in ArgPool : SetDispatch(r, "add", <<k>>, 1)

\* pop(): set_items is a Python set, so any member may be the one taken
SetPop == \E r \in Targets, pick \in 1..MaxLen :
    /\ pick \in DOMAIN heap[refs[r]].items \/ (pick = 1 /\ heap[refs[r]].items = <<>>)
    /\ SetDispatch(r, "pop", <<>>, pick)

SetUpdate == \E r \in Targets, a \in {DictRef(refs[q]) : q \in DOMAIN refs} \cup {LV} :
    SetDispatch(r, "update", <<a>>, 1)

SetGetItem == \E r \in Targets, k \in ArgPool : SetDispatch(r, "__getitem__", <<k>>, 1)

SetContains == \E r \in Targets, k \in ArgPool : SetDispatch(r, "__contains__", <<k>>, 1)

\* SetVariable(items): a set of at most one element, and a second reference that
\* aliases it or holds a plain dict
InitSet ==
    \E m \in BOOLEAN, alias \in BOOLEAN,
       items \in InitItems(KeyPool, {SetVariable_default_value}, 1),
       oitems \in InitItems(OtherKeyPool, OtherValPool, 2) :
        /\ heap = IF alias
                  THEN 1 :> SetVariable_init("dict", items, m, {})
                  ELSE (1 :> SetVariable_init("dict", items, m, {}))
                       @@ (2 :> ConstDict_init("ConstDictVariable", "dict", oitems,
                                               FALSE, FNone, {}))
        /\ refs = [q \in {"self", "other"} |-> IF q = "self" \/ alias THEN 1 ELSE 2]
        /\ last = NoCall

NextSet ==
    \/ SetAdd
    \/ SetPop
    \/ SetUpdate
    \/ SetGetItem
    \/ SetContains

SpecSet == InitSet /\ [][NextSet]_vars

(***************************************************************************)
(* The record adapters: construction from a call, then calls on the result. *)
(***************************************************************************)
ClassRef(user_cls) == VT("class", user_cls, 0, <<>>)

\* cls.create(user_cls, args, kwargs, options) followed by the assignment of
\* its result to the reference self; m tells whether options has a mutable_local
Construct(op, cls, user_cls, args, kwargs, m, made) ==
    LET ok == made.status = "ok"
        n == FreshOid(refs)
        rf == IF ok THEN [refs EXCEPT !.self = n] ELSE refs
    IN
    /\ heap' = [i \in Live(rf) |->
                    IF ok /\ i = n
                    THEN ConstDict_init(cls, user_cls, made.items, m, FNone, {})
                    ELSE heap[i]]
    /\ refs' = rf
    /\ last' = [NoCall EXCEPT !.op = op, !.target = rf.self,
                               !.args = <<ClassRef(user_cls)>> \o args \o kwargs,
                               !.status = made.status,
                               !.result = IF ok THEN DictRef(n) ELSE NoValue]

\* positional and keyword arguments of a constructor call
PosPool == {<<>>, <<V7>>, <<V7, TA>>, <<DictRef(refs.other)>>, <<DictRef(refs.other), V7>>}
KwPool == {<<>>, <<Kw("b", TA)>>, <<Kw("b", TA), Kw("a", V7)>>, <<Kw("c", V7)>>}
DataClasses == {"Rec3", "RecNone"}
CustomClasses == {"Rec3", "RecObj", "MyDict"}

\* the caller passes options = {"mutable_local": MutableLocal()}; one adapter
\* is constructed in a run
CreateDataClass == \E user_cls \in DataClasses, args \in PosPool, kwargs \in KwPool :
    /\ ~IsAdapter(heap[refs.self])
    /\ Construct("DataClassVariable.create", "DataClassVariable", user_cls, args, kwargs,
                 TRUE, DataClass_create(user_cls, args, kwargs))

CreateCustomized == \E user_cls \in CustomClasses, args \in PosPool, kwargs \in KwPool :
    /\ ~IsAdapter(heap[refs.self])
    /\ Construct("CustomizedDictVariable.create", "CustomizedDictVariable", user_cls, args,
                 kwargs, TRUE, Customized_create(heap, user_cls, args, kwargs))

\* keys stored into an adapter: a field name, and the constants 1 and True
AdapterKeyPool == {NameConst("c"), K1, KT}
MethodPool == {"__getitem__", "__setattr__", "to_tuple", "keys", "foo", "bar"}

AdapterSetItem == \E r \in Targets, k \in AdapterKeyPool, v \in ValPool :
    /\ IsAdapter(heap[refs[r]])
    /\ Dispatch(r, "__setitem__", <<k, v>>, V7)

\* attribute names assigned to an adapter
AttrPool == {"a", "b"}

AdapterCall == \E r \in Targets, name \in MethodPool, attr \in AttrPool, uret \in UserRetPool :
    /\ IsAdapter(heap[refs[r]])
    /\ Dispatch(r, name,
                IF name \in {"__getitem__"} THEN <<NameConst("a")>>
                ELSE IF name = "__setattr__" THEN <<NameConst(attr), TA>>
                ELSE <<>>, uret)

\* the plain dict a constructor call may be given
InitAdapter == InitOf({<<"ConstDictVariable", "dict", FNone>>}, {TRUE}, {})

NextAdapter ==
    \/ CreateDataClass
    \/ CreateCustomized
    \/ AdapterSetItem
    \/ AdapterCall
    \/ Reconstruct

SpecAdapter == InitAdapter /\ [][NextAdapter]_vars

(***************************************************************************)
(* PythonSysModulesVariable: sys.modules, resolved against the real        *)
(* registry at trace time.  refs.self is the variable, refs.other the real *)
(* registry dict of the process.                                           *)
(***************************************************************************)
\* module names and the concrete module objects registered under them
ModA == Const("str", 1)
ModB == Const("str", 2)
ModuleObject(k) == VT("module", "", k.val, <<>>)
\* VariableBuilder(tx, GetItemSource(self.source, k))(sys.modules[k])
ModuleVar(k) == VT("PythonModuleVariable", "", k.val, <<>>)
\* the real sys.modules, as the value handed to VariableBuilder
SysModules == VT("sys.modules", "", 0, <<>>)
\* a call of VariableBuilder on a concrete value
BuilderCall(value) == VT("call", "VariableBuilder", 0, <<value>>)

\* key.as_python_constant() raises for a value that is no constant
is_python_constant_key(key) == key.kind = "ConstantVariable"

\* k in sys.modules
has_key(modules, key) == \E i \in DOMAIN modules : PyConstEq(modules[i].k, key)

\* a lookup that yields the first registered module whatever the key
modules_getitem_first(modules, key) == modules[1].v

\* sys.modules[k]
modules_getitem(modules, key) ==
    modules[CHOOSE i \in DOMAIN modules : PyConstEq(modules[i].k, key)].v

\* the guard with the polarity turned round
DICT_CONTAINS_inverted(key, present) == Guard("DICT_CONTAINS", key, present)

\* GuardBuilder.DICT_CONTAINS, key=k, invert=not has_key
DICT_CONTAINS(key, present) == Guard("DICT_CONTAINS", key, ~present)

\* _contains_helper: has_key and guards = {*self.guards, guard}
contains_helper(self, modules, key) ==
    [has_key |-> has_key(modules, key),
     guards |-> self.guards \cup {DICT_CONTAINS(key, has_key(modules, key))}]

SysEff(status, result, rguards, built) ==
    [status |-> status, result |-> result, rguards |-> rguards, built |-> built]

call_contains(self, modules, args) ==
    IF Len(args) # 1 THEN SysEff("TypeError", NoValue, {}, <<>>)
    ELSE IF ~is_python_constant_key(args[1]) THEN SysEff("NotImplementedError", NoValue, {}, <<>>)
    ELSE LET h == contains_helper(self, modules, args[1]) IN
         SysEff("ok", PyBool(h.has_key), h.guards, <<>>)

call_get(self, modules, args) ==
    IF Len(args) \notin {1, 2} THEN SysEff("TypeError", NoValue, {}, <<>>)
    ELSE IF ~is_python_constant_key(args[1]) THEN SysEff("NotImplementedError", NoValue, {}, <<>>)
    ELSE LET h == contains_helper(self, modules, args[1]) IN
         IF h.has_key
         THEN SysEff("ok", ModuleVar(modules_getitem(modules, args[1])), h.guards,
                     <<BuilderCall(modules_getitem(modules, args[1]))>>)
         ELSE IF Len(args) = 2
         THEN SysEff("ok", args[2], GuardsOf(args[2]) \cup h.guards, <<>>)
         ELSE SysEff("ok", PyNone, h.guards, <<>>)

call_getitem(self, modules, args) ==
    IF Len(args) # 1 THEN SysEff("TypeError", NoValue, {}, <<>>)
    ELSE IF ~is_python_constant_key(args[1]) THEN SysEff("NotImplementedError", NoValue, {}, <<>>)
    ELSE LET h == contains_helper(self, modules, args[1]) IN
         IF h.has_key
         THEN SysEff("ok", ModuleVar(modules_getitem(modules, args[1])), h.guards,
                     <<BuilderCall(modules_getitem(modules, args[1]))>>)
         ELSE SysEff("KeyError", NoValue, {}, <<>>)

\* VariableBuilder(tx, self.source, **options)(sys.modules): the whole registry
\* as a ConstDictVariable with a source and no mutable_local
real_dict(modules, options) ==
    ConstDict_init("ConstDictVariable", "dict",
                   [i \in DOMAIN modules |-> Entry(modules[i].k, 0, ModuleVar(modules[i].k))],
                   FALSE, FNone, options)

\* PythonSysModulesVariable.call_method on the variable refs.self, with the
\* registry refs.other
SysCall(name, args) ==
    LET self == heap[refs.self]
        modules == heap[refs.other].items
        n == FreshOid(refs)
        special == name \in {"__getitem__", "get", "__contains__"}
        e == IF name = "__getitem__" THEN call_getitem(self, modules, args)
             ELSE IF name = "get" THEN call_get(self, modules, args)
             ELSE call_contains(self, modules, args)
        h2 == [i \in Live(refs) \cup {n} |->
                  IF i = n THEN real_dict(modules, propagate(heap, self, args)) ELSE heap[i]]
        d == call_method(h2, n, name, args, FreshW(heap, refs), FreshList(heap, refs), PyNone)
    IN
    /\ heap' = IF special THEN [i \in Live(refs) |-> heap[i]]
               ELSE [h2 EXCEPT ![n] = IF d.mutated THEN modifed(h2[n], d.new, d.options)
                                      ELSE h2[n]]
    /\ refs' = refs
    /\ last' = [NoCall EXCEPT !.op = name, !.target = refs.self, !.args = args,
                   !.status = IF special THEN e.status ELSE d.status,
                   !.result = IF special THEN e.result
                              ELSE IF d.result = NewSnapshot THEN DictRef(n) ELSE d.result,
                   !.rguards = IF special THEN e.rguards ELSE d.rguards,
                   !.inlined = IF special THEN e.built ELSE <<BuilderCall(SysModules)>>]

SysKeyPool == {ModA, ModB, TA}
SysDefaultPool == {V7, TA}
SysFallbackPool == {"__len__", "keys", "items"}

SysContains == \E k \in SysKeyPool : SysCall("__contains__", <<k>>)

SysGet == \E k \in SysKeyPool :
    \/ SysCall("get", <<k>>)
    \/ \E d \in SysDefaultPool : SysCall("get", <<k, d>>)

SysGetItem == \E k \in SysKeyPool : SysCall("__getitem__", <<k>>)

SysFallback == \E name \in SysFallbackPool : SysCall(name, <<>>)

\* the traced program imports a module: the real registry gains an entry
Import == \E k \in {ModA, ModB} :
    /\ ~has_key(heap[refs.other].items, k)
    /\ heap' = [i \in Live(refs) |->
                  IF i = refs.other
                  THEN [heap[i] EXCEPT !.items = Append(@, Entry(k, 0, ModuleObject(k)))]
                  ELSE heap[i]]
    /\ refs' = refs
    /\ last' = [NoCall EXCEPT !.op = "import", !.target = refs.other, !.args = <<k>>,
                              !.status = "ok"]

\* the variable, with or without a guard of its own, and a registry holding
\* none or one of the modules
InitSys ==
    \E g \in {{}, {Guard("TENSOR_MATCH", TA, FALSE)}},
       modules \in {<<>>, <<Entry(ModA, 0, ModuleObject(ModA))>>,
                    <<Entry(ModB, 0, ModuleObject(ModB))>>} :
        /\ heap = (1 :> Obj("PythonSysModulesVariable", "dict", <<>>, FALSE, FNone, g))
                  @@ (2 :> Obj("sys.modules", "dict", modules, TRUE, FNone, {}))
        /\ refs = [q \in {"self", "other"} |-> IF q = "self" THEN 1 ELSE 2]
        /\ last = NoCall

NextSys ==
    \/ SysContains
    \/ SysGet
    \/ SysGetItem
    \/ SysFallback
    \/ Import

SpecSys == InitSys /\ [][NextSys]_vars

(***************************************************************************)
(* DictView, DictKeys, DictValues.  The interpreter holds one view of each *)
(* kind; refs.keys and refs.values are their dv_dict references, live      *)
(* references like any other.                                              *)
(***************************************************************************)
ViewKinds == {"keys", "values"}

\* an element of dict.keys() of self.items: the _HashableTracker wrapper
HashableTracker(e) == VT("_HashableTracker", "", e.w, <<e.k>>)

\* a view that shows the keys whatever its kind
view_items_keys(items, kv) == [i \in DOMAIN items |-> HashableTracker(items[i])]

\* DictView.view_items: getattr(self.dv_dict.items, self.kv)()
view_items(items, kv) ==
    [i \in DOMAIN items |-> IF kv = "keys" THEN HashableTracker(items[i]) ELSE items[i].v]

\* unwrap of DictView.unpack_var_sequence
unwrap(x, kv) == IF kv = "keys" THEN x.items[1] ELSE x

\* DictView.unpack_var_sequence: the list of the unwrapped elements, each with
\* the options of dv_dict
DictView_unpack_var_sequence(h, dv, kv) ==
    LET seq == view_items(h[dv].items, kv)
        out == [i \in DOMAIN seq |-> unwrap(seq[i], kv)]
    IN Return(h[dv], TupleVar(out),
              h[dv].guards \cup UNION {GuardsOf(out[i]) : i \in DOMAIN out})

\* DictView.call_method, with the override of DictKeys
DictView_call_method(h, dv, kv, name, args, fw, fl) ==
    IF kv = "keys" /\ name = "__contains__"
    THEN call_method(h, dv, name, args, fw, fl, PyNone)
    ELSE IF name = "__len__"
    THEN call_method(h, dv, name, args, fw, fl, PyNone)
    ELSE VariableTracker_call_method(h[dv], name, args)

\* DictView.__init__(dv_dict): the reference the new view holds
DictView_init(h, o, kv) ==
    call_method(h, o, kv, <<>>, 0, 0, PyNone).result.val

ViewLen == \E kv \in ViewKinds :
    Complete(refs[kv], "__len__", <<ViewRef(kv, refs[kv])>>,
             DictView_call_method(heap, refs[kv], kv, "__len__", <<>>,
                                  FreshW(heap, refs), FreshList(heap, refs)))

ViewContains == \E kv \in ViewKinds, k \in KeyPool :
    Complete(refs[kv], "__contains__", <<ViewRef(kv, refs[kv]), k>>,
             DictView_call_method(heap, refs[kv], kv, "__contains__", <<k>>,
                                  FreshW(heap, refs), FreshList(heap, refs)))

ViewUnpack == \E kv \in ViewKinds :
    Complete(refs[kv], "unpack_var_sequence", <<ViewRef(kv, refs[kv])>>,
             DictView_unpack_var_sequence(heap, refs[kv], kv))

\* an empty mutable dict d, a second container, and the views d.keys() and
\* d.values() taken before any mutation
InitView ==
    \E alias \in BOOLEAN, c \in {"dict", "OrderedDict"},
       oitems \in InitItems(OtherKeyPool, OtherValPool, 2) :
        LET d == ConstDict_init("ConstDictVariable", c, <<>>, TRUE, FNone, {})
            h == IF alias THEN 1 :> d
                 ELSE (1 :> d) @@ (2 :> ConstDict_init("ConstDictVariable", "dict", oitems,
                                                       FALSE, FNone, {}))
        IN
        /\ heap = h
        /\ refs = [q \in {"self", "other"} \cup ViewKinds |->
                      IF q = "other" THEN (IF alias THEN 1 ELSE 2)
                      ELSE IF q = "self" THEN 1
                      ELSE DictView_init(h, 1, q)]
        /\ last = NoCall

NextView ==
    \/ SetItem
    \/ Pop
    \/ Update
    \/ ViewLen
    \/ ViewContains
    \/ ViewUnpack

SpecView == InitView /\ [][NextView]_vars

(***************************************************************************)
(* Sequences returned by 'items' and by unpack_var_sequence.  The          *)
(* interpreter keeps the last returned sequence in a local: refs.seq is    *)
(* the object built for it.                                                *)
(***************************************************************************)
\* ConstDictVariable.unpack_var_sequence: [x.vt for x in self.items.keys()]
ConstDict_unpack_var_sequence(self) == Return(self, TupleVar(Keys(self.items)), {})

\* the object holding a returned sequence: its elements, one per slot
SeqObj(seq, guards) ==
    Obj("TupleVariable", "tuple", [i \in DOMAIN seq.items |-> Entry(seq.items[i], 0, NoValue)],
        FALSE, FNone, guards)

\* a call that returns a sequence, and the assignment of the result to the local
TakeSeq(op, eff) ==
    LET n == FreshOid(refs)
        rf == [refs EXCEPT !.seq = n]
    IN
    /\ heap' = [i \in Live(rf) |-> IF i = n THEN SeqObj(eff.result, eff.rguards) ELSE heap[i]]
    /\ refs' = rf
    /\ last' = [NoCall EXCEPT !.op = op, !.target = refs.self, !.status = eff.status,
                              !.result = eff.result, !.rguards = eff.rguards]

TakeItems ==
    TakeSeq("items", call_method(heap, refs.self, "items", <<>>, FreshW(heap, refs),
                                 FreshList(heap, refs), PyNone))

TakeKeys == TakeSeq("unpack_var_sequence", ConstDict_unpack_var_sequence(heap[refs.self]))

\* the mutations of d that follow
IterKeyPool == {K1, TA}

IterSetItem == \E k \in IterKeyPool, v \in ValPool :
    Dispatch("self", "__setitem__", <<k, v>>, PyNone)

IterPop == \E k \in IterKeyPool : Dispatch("self", "pop", <<k>>, PyNone)

IterUpdate == Dispatch("self", "update", <<DictRef(refs.other)>>, PyNone)

\* a mutable dict d, a second container, and the sequence d.items() taken of it
InitIter ==
    \E alias \in BOOLEAN, items \in InitItems(IterKeyPool, ValPool, 1),
       oitems \in InitItems(OtherKeyPool, OtherValPool, 2) :
        LET d == ConstDict_init("ConstDictVariable", "dict", items, TRUE, FNone, {})
            e == call_method(1 :> d, 1, "items", <<>>, 0, 0, PyNone)
        IN
        /\ heap = (IF alias THEN 1 :> d
                   ELSE (1 :> d) @@ (2 :> ConstDict_init("ConstDictVariable", "dict", oitems,
                                                         FALSE, FNone, {})))
                  @@ (3 :> SeqObj(e.result, e.rguards))
        /\ refs = [q \in {"self", "other", "seq"} |->
                      IF q = "seq" THEN 3
                      ELSE IF q = "self" \/ alias THEN 1 ELSE 2]
        /\ last = NoCall

NextIter ==
    \/ IterSetItem
    \/ IterPop
    \/ IterUpdate
    \/ TakeItems
    \/ TakeKeys

SpecIter == InitIter /\ [][NextIter]_vars

(***************************************************************************)
(* Calls that end in an error: the dispatcher with method names it does    *)
(* not know besides the ones it does.                                      *)
(***************************************************************************)
UnknownPool == {"clear", "setdefault"}

UnknownMethod == \E r \in Targets, name \in UnknownPool, a \in {<<>>, <<K1>>} :
    Dispatch(r, name, a, PyNone)

NextErr ==
    \/ GetItem
    \/ SetItem
    \/ Pop
    \/ Update
    \/ Get
    \/ UnknownMethod

SpecErr == Init /\ [][NextErr]_vars

Next ==
    \/ GetItem
    \/ Items
    \/ KeysView
    \/ ValuesView
    \/ Length
    \/ SetItem
    \/ Pop
    \/ Update
    \/ Get
    \/ Contains
    \/ DirectContains
    \/ IsPythonConstant

Spec == Init /\ [][Next]_vars

SpecDefault == InitDefault /\ [][Next]_vars

(***************************************************************************)
(* Properties.                                                             *)
(***************************************************************************)
\* the key equality the container is specified to have: same dynamic kind and
\* equal projections, tuples element-wise, fake tensors by identity
SameKey(a, b) == underlying_value(a) = underlying_value(b)

HasKey(items, k) == \E i \in DOMAIN items : SameKey(items[i].k, k)

ValueOf(items, k) == items[CHOOSE i \in DOMAIN items : SameKey(items[i].k, k)].v

Without(items, k) ==
    LET Other(e) == ~SameKey(e.k, k) IN SelectSeq(items, Other)

Values(items) == [i \in DOMAIN items |-> items[i].v]

\* the object the last call was dispatched to, as the call left it, and the
\* container the reference holds now
OldItems == heap[last.target].items
NewItems == heap[refs.self].items

IsPop == last.op = "pop"
IsUpdate == last.op = "update"
IsLookup == last.op = "__getitem__"

\* C1: a setItem or pop step changes the key iteration order of the container
\* the reference holds only as insertion order allows: setItem of a present key
\* keeps every position, setItem of an absent key (also one popped before)
\* appends it at the end, pop of a present key removes it and keeps the order
\* of the rest, and a call that fails or returns a default changes nothing.
C1_IterationOrder ==
    [][LET c == last'
           old == heap[refs.self].items
           new == heap'[refs'.self].items
       IN c.op \in {"__setitem__", "pop"} =>
            IF c.status # "ok" THEN new = old
            ELSE IF c.op = "__setitem__"
            THEN IF HasKey(old, c.args[1]) THEN Keys(new) = Keys(old)
                 ELSE Keys(new) = Append(Keys(old), c.args[1])
            ELSE Keys(new) = Keys(Without(old, c.args[1]))]_vars

\* C1 witness: a setItem overwrote the first of two keys with another value and
\* the key kept its position
C1_Witness ==
    /\ last.op = "__setitem__" /\ last.status = "ok"
    /\ Len(OldItems) = 2
    /\ SameKey(OldItems[1].k, last.args[1])
    /\ OldItems[1].v # last.args[2]
    /\ Keys(NewItems) = Keys(OldItems)
    /\ NewItems[1].v = last.args[2]

\* C2: no call edits a live container value object in place; a successful
\* setItem, pop of a present key, update or defaulting lookup of a missing key
\* calls replace_all exactly once, with the old object and a new object that
\* carries the change, and every live reference to the old object is retargeted;
\* the read-only calls never call replace_all and retarget nothing.
C2_CopyOnWrite ==
    [][LET c == last'
           o == refs.self
           pre == heap[o].items
           mutating ==
               /\ c.status = "ok"
               /\ \/ c.op \in {"__setitem__", "update"}
                  \/ c.op = "pop" /\ HasKey(pre, c.args[1])
                  \/ c.op = "__getitem__" /\ ~HasKey(pre, c.args[1])
           readonly ==
               \/ c.op \in {"get", "__contains__", "__len__", "keys", "values", "items"}
               \/ c.op = "__getitem__" /\ HasKey(pre, c.args[1])
               \/ c.op = "pop" /\ Len(c.args) = 2 /\ ~HasKey(pre, c.args[1])
           carried(new) ==
               IF c.op = "__setitem__"
               THEN HasKey(new, c.args[1]) /\ ValueOf(new, c.args[1]) = c.args[2]
               ELSE IF c.op = "pop" THEN ~HasKey(new, c.args[1])
               ELSE IF c.op = "update"
               THEN \A e \in {heap[c.args[1].val].items[i] :
                                 i \in DOMAIN heap[c.args[1].val].items} :
                        HasKey(new, e.k) /\ ValueOf(new, e.k) = e.v
               ELSE HasKey(new, c.args[1]) /\ ValueOf(new, c.args[1]) = c.result
       IN /\ \A x \in Live(refs) : x \in DOMAIN heap' /\ heap'[x] = heap[x]
          /\ mutating =>
               \E n \in (DOMAIN heap') \ Live(refs) :
                   /\ c.replaced = <<<<o, n>>>>
                   /\ carried(heap'[n].items)
                   /\ refs' = [q \in DOMAIN refs |-> IF refs[q] = o THEN n ELSE refs[q]]
          /\ readonly => c.replaced = <<>> /\ refs' = refs]_vars

\* C2 witness: a defaulting lookup of a missing key handed one new snapshot to
\* replace_all and both references moved to it, the old object still empty
C2_Witness ==
    /\ IsLookup /\ last.status = "ok" /\ last.factory = 1
    /\ Len(last.replaced) = 1
    /\ refs.self = last.replaced[1][2] /\ refs.other = refs.self
    /\ refs.self # last.target
    /\ Len(OldItems) = 0 /\ Len(NewItems) = 1

\* C3 as stated: a container whose mutable_local is unset rejects every setItem,
\* pop and update: the call raises, returns no value, calls replace_all not at
\* all and leaves the references and the entries as they were.
C3_Original ==
    [][LET c == last'
           o == refs.self
       IN (c.op \in {"__setitem__", "pop", "update"} /\ ~heap[o].mutable_local) =>
            /\ c.replaced = <<>> /\ refs' = refs
            /\ heap'[refs'.self].items = heap[o].items
            /\ c.status # "ok" /\ c.result = NoValue]_vars

\* C3 amended: a container whose mutable_local is unset never calls replace_all
\* in setItem, pop or update and its references and entries stay as they were;
\* setItem and update always raise, and pop raises unless it is given a default
\* and a hashable key that is not present, and then it returns that default.
C3_Immutable ==
    [][LET c == last'
           o == refs.self
       IN (c.op \in {"__setitem__", "pop", "update"} /\ ~heap[o].mutable_local) =>
            /\ c.replaced = <<>> /\ refs' = refs
            /\ heap'[refs'.self].items = heap[o].items
            /\ \/ c.status # "ok" /\ c.result = NoValue
               \/ /\ c.op = "pop" /\ Len(c.args) = 2
                  /\ is_hashable(c.args[1]) /\ ~HasKey(heap[o].items, c.args[1])
                  /\ c.status = "ok" /\ c.result = c.args[2]]_vars

\* C3 witness: setItem with a hashable key was rejected by a container of one
\* entry whose mutable_local is unset
C3_Witness ==
    /\ last.op = "__setitem__" /\ last.status = "Unsupported"
    /\ is_hashable(last.args[1])
    /\ ~heap[last.target].mutable_local
    /\ Len(OldItems) = 1 /\ refs.self = last.target

\* C4 as stated: pop(key, default?) with a hashable key on a mutable container
\* has three outcomes: absent without default, a key error and no change;
\* absent with default, the default and no change; present, the bound value and
\* a new snapshot that is the old one minus that key.
C4_Original ==
    (IsPop /\ heap[last.target].mutable_local /\ is_hashable(last.args[1])) =>
        IF HasKey(OldItems, last.args[1])
        THEN /\ last.status = "ok"
             /\ last.result = ValueOf(OldItems, last.args[1])
             /\ Len(last.replaced) = 1
             /\ NewItems = Without(OldItems, last.args[1])
        ELSE /\ last.replaced = <<>> /\ refs.self = last.target
             /\ IF Len(last.args) = 2
                THEN last.status = "ok" /\ last.result = last.args[2]
                ELSE last.status = "KeyError"

\* the keys of other that items lacks, in other's order
NewKeys(items, other) ==
    LET Fresh(e) == ~HasKey(items, e.k) IN Keys(SelectSeq(other, Fresh))

\* C5 as stated: update(other) with a container argument on a mutable container
\* yields a snapshot whose keys are the old keys in their positions followed by
\* the keys only other has, in other's order, each key bound to other's value
\* when other has it and to its old value otherwise.
C5_Original ==
    (IsUpdate /\ heap[last.target].mutable_local
        /\ last.args[1].kind = "ConstDictVariable") =>
        LET other == heap[last.args[1].val].items IN
        /\ last.status = "ok"
        /\ Keys(NewItems) = Keys(OldItems) \o NewKeys(OldItems, other)
        /\ \A i \in DOMAIN NewItems :
             NewItems[i].v = IF HasKey(other, NewItems[i].k)
                             THEN ValueOf(other, NewItems[i].k)
                             ELSE ValueOf(OldItems, NewItems[i].k)

\* a probe value can be wrapped as a key
HashableCompatible(p) == p.kind = "literal" \/ (p.kind # "object" /\ is_hashable(p))

AsKey(p) == IF p.kind = "literal" THEN Const(p.ty, p.val) ELSE p

\* C6 as stated: the dispatched '__contains__' and the direct membership test
\* return a boolean for every probe and never raise: true iff the probe is
\* hashable-compatible and equals a stored key.
C6_Original ==
    last.op \in {"__contains__", "ConstDictVariable.__contains__"} =>
        /\ last.status = "ok"
        /\ last.result = PyBool(/\ HashableCompatible(last.args[1])
                                /\ HasKey(OldItems, AsKey(last.args[1])))

\* C7 as stated: the comparison of two wrappers is a boolean, true iff the
\* projections have the same dynamic kind and compare equal, tuples
\* element-wise and fake tensors by identity.
C7_Original ==
    last.op = "_HashableTracker.__eq__" =>
        /\ last.status = "ok"
        /\ last.result = PyBool(SameKey(last.args[1], last.args[2]))

\* C8 as stated: on a defaulting container with a factory, lookup of a missing
\* hashable key calls the factory once, binds the value it made at the end of
\* the new snapshot and returns it; lookup of a key that is present (as after
\* such a lookup) returns the bound value and calls the factory not at all.
C8_Original ==
    (IsLookup /\ heap[last.target].cls = "DefaultDictVariable"
        /\ heap[last.target].default_factory # FNone /\ is_hashable(last.args[1])) =>
        IF HasKey(OldItems, last.args[1])
        THEN /\ last.status = "ok" /\ last.factory = 0 /\ last.replaced = <<>>
             /\ last.result = ValueOf(OldItems, last.args[1])
        ELSE /\ last.status = "ok" /\ last.factory = 1
             /\ Keys(NewItems) = Append(Keys(OldItems), last.args[1])
             /\ Values(NewItems) = Append(Values(OldItems), last.result)

\* C9 as stated: when a defaulting lookup materializes a default for a missing
\* key, the value returned or the new snapshot carries a guard recording that
\* this key was absent.
C9_Original ==
    (IsLookup /\ last.factory = 1) =>
        \E g \in last.rguards \cup heap[refs.self].guards :
            g.kind = "DICT_CONTAINS" /\ g.key = last.args[1] /\ g.invert

\* C10 as stated: a defaulting container whose factory is a user function, not
\* one of list, tuple, dict, reports is_python_constant false whatever it holds.
C10_Original ==
    (last.op = "is_python_constant" /\ heap[last.target].cls = "DefaultDictVariable"
        /\ heap[last.target].default_factory = FUser) =>
        last.result = PyFalse

\* C11 as stated: pop() on a mutable set: an empty set raises a key error and
\* substitutes nothing; a non-empty set returns one of its member keys and the
\* new snapshot is the old set minus exactly that key.
C11_Original ==
    (last.op = "pop" /\ heap[last.target].cls = "SetVariable"
        /\ heap[last.target].mutable_local) =>
        IF OldItems = <<>>
        THEN last.status = "KeyError" /\ last.replaced = <<>> /\ refs.self = last.target
        ELSE /\ last.status = "ok" /\ Len(last.replaced) = 1
             /\ \E i \in DOMAIN OldItems :
                    last.result = OldItems[i].k /\ NewItems = RemoveAt(OldItems, i)

\* every value slot of a set object is the sentinel
AllSentinel(items) == \A i \in DOMAIN items : items[i].v = SetVariable_default_value

\* C12: every value slot of every live set is the sentinel after any add, pop
\* and update; add(v) leaves the keys setItem(v, sentinel) leaves; and
\* '__getitem__' on a set raises and returns nothing.
C12_SetSentinel ==
    /\ \A o \in Live(refs) : heap[o].cls = "SetVariable" => AllSentinel(heap[o].items)
    /\ (last.op = "add" /\ last.status = "ok" /\ heap[last.target].cls = "SetVariable") =>
          Keys(NewItems) = IF HasKey(OldItems, last.args[1]) THEN Keys(OldItems)
                           ELSE Append(Keys(OldItems), last.args[1])
    /\ (last.op = "__getitem__" /\ heap[last.target].cls = "SetVariable") =>
          last.status # "ok" /\ last.result = NoValue

\* C12 witness: update with a plain dict whose value is a tensor gave the set a
\* new member, bound to the sentinel
C12_Witness ==
    /\ last.op = "update" /\ last.status = "ok"
    /\ heap[last.target].cls = "SetVariable"
    /\ last.args[1].kind = "ConstDictVariable" /\ last.args[1].val # last.target
    /\ \E i \in DOMAIN heap[last.args[1].val].items :
           heap[last.args[1].val].items[i].v = TA
    /\ Len(NewItems) > Len(OldItems)
    /\ AllSentinel(NewItems)

\* the instructions of the last reconstruct, and those of one opcode
Code == last.result.items

Only(op) == LET Is(i) == i.op = op IN SelectSeq(Code, Is)

\* C13: reconstruct of a ConstDictVariable or DefaultDictVariable loads, entry
\* by entry in insertion order, the key and then the value, each entry once,
\* and after the last load builds one map of as many entries.
C13_ReconstructOrder ==
    (last.op = "reconstruct"
        /\ heap[last.target].cls \in {"ConstDictVariable", "DefaultDictVariable"}) =>
        LET loads == Only("LOAD")
            n == Len(OldItems)
        IN /\ last.status = "ok"
           /\ Len(loads) = 2 * n
           /\ \A i \in 1..n : /\ loads[2 * i - 1].v = OldItems[i].k
                               /\ loads[2 * i].v = OldItems[i].v
           /\ Len(Only("BUILD_MAP")) = 1
           /\ \E b \in DOMAIN Code :
                 /\ Code[b].op = "BUILD_MAP" /\ Code[b].n = n
                 /\ \A j \in DOMAIN Code : Code[j].op = "LOAD" => j < b

\* C13 witness: a container of two entries with different keys and values was
\* reconstructed
C13_Witness ==
    /\ last.op = "reconstruct" /\ last.status = "ok"
    /\ Len(OldItems) = 2
    /\ OldItems[1].k # OldItems[2].k /\ OldItems[1].v # OldItems[2].v
    /\ OldItems[1].k # OldItems[1].v
    /\ Len(Only("LOAD")) = 4

\* C14 as stated: for every user_cls other than dict, reconstruct first loads
\* that class and ends with a call of it on the map it built.
C14_Original ==
    (last.op = "reconstruct"
        /\ heap[last.target].cls \in {"ConstDictVariable", "DefaultDictVariable"}
        /\ heap[last.target].user_cls # "dict") =>
        /\ last.status = "ok"
        /\ Len(Code) >= 3
        /\ Code[1].op = "LOAD_MODULE" /\ Code[1].name = "collections"
        /\ Code[2].op = "LOAD_ATTR" /\ Code[2].name = heap[last.target].user_cls
        /\ Code[Len(Code) - 1].op = "BUILD_MAP"
        /\ Code[Len(Code)] = Instr("CALL_FUNCTION", 1, NoValue, "")

\* the class, the positional and the keyword arguments of the last constructor call
CallCls == last.args[1].ty

CallPos == LET IsPos(a) == a.kind \notin {"kwarg", "class"} IN SelectSeq(last.args, IsPos)

CallKw == LET IsKw(a) == a.kind = "kwarg" IN SelectSeq(last.args, IsKw)

\* field number i of the class is bound by the call itself
Explicit(i) == i <= Len(CallPos) \/ KwIndex(CallKw, fields(CallCls)[i].name) # 0

\* the call can be bound against the field signature
Bindable ==
    LET fs == fields(CallCls) IN
    /\ Len(CallPos) <= Len(fs)
    /\ \A j \in DOMAIN CallKw : FieldIndex(fs, CallKw[j].ty) > Len(CallPos)
    /\ \A i \in DOMAIN fs : Explicit(i) \/ fs[i].default # Required

\* the value field number i is bound to, a literal default wrapped as a constant
BoundValue(i) ==
    LET f == fields(CallCls)[i] IN
    IF i <= Len(CallPos) THEN CallPos[i]
    ELSE IF KwIndex(CallKw, f.name) # 0 THEN CallKw[KwIndex(CallKw, f.name)].items[1]
    ELSE Const(f.default.ty, f.default.val)

\* the class of the last constructor call is a record type with declared fields
DeclaresFields == fields(CallCls) # <<>>

NoContainerMade == last.result = NoValue /\ ~IsAdapter(heap[refs.self])

\* the last instruction of the last reconstruct
LastInstr == Code[Len(Code)]

\* C15 as stated: DataClassVariable.create on the 3-field record Rec3, fields a
\* and b bound by the call and c left to its declared default 0, succeeds with
\* entries for a and b only, and reconstruct of a DataClassVariable holding
\* just a and b ends in a keyword call with those two names.
C15_Original ==
    /\ (last.op = "DataClassVariable.create" /\ CallCls = "Rec3" /\ Bindable
          /\ Explicit(1) /\ Explicit(2) /\ ~Explicit(3)) =>
          /\ last.status = "ok"
          /\ Keys(NewItems) = <<NameConst("a"), NameConst("b")>>
          /\ Values(NewItems) = <<BoundValue(1), BoundValue(2)>>
    /\ (last.op = "reconstruct" /\ heap[last.target].cls = "DataClassVariable"
          /\ Keys(OldItems) = <<NameConst("a"), NameConst("b")>>) =>
          /\ last.status = "ok"
          /\ LastInstr = Instr("CALL_FUNCTION_KW", 2,
                                TupleVar(<<NameConst("a"), NameConst("b")>>), "")

\* C16 as stated: reconstruct of a record adapter loads the record type, then
\* every entry's value in key order, then makes one keyword call whose names
\* are the keys in that order and whose count is the number of entries; it
\* builds no map.
C16_Original ==
    (last.op = "reconstruct" /\ IsAdapter(heap[last.target])) =>
        /\ last.status = "ok"
        /\ Code = <<Instr("LOAD_CONST", 0, NoValue, heap[last.target].user_cls)>>
                  \o [i \in DOMAIN OldItems |-> Instr("LOAD", 0, OldItems[i].v, "")]
                  \o <<Instr("CALL_FUNCTION_KW", Len(OldItems), TupleVar(Keys(OldItems)), "")>>

\* C17: CustomizedDictVariable.create applies the first rule that fits: (1) a
\* dataclass binds the call against its fields, defaults applied, and makes an
\* entry for every field, or fails and makes nothing; (2) else a call without
\* positional arguments makes the keywords its entries, in order; (3) else one
\* positional ConstDictVariable and no keywords copies its entries in order;
\* (4) else the call fails as unsupported and makes nothing.
C17_CreatePriority ==
    last.op = "CustomizedDictVariable.create" =>
        IF DeclaresFields
        THEN LET fs == fields(CallCls) IN
             /\ (Bindable /\ \A i \in DOMAIN fs : Explicit(i) \/ fs[i].default.kind = "literal")
                    => last.status = "ok"
             /\ last.status = "ok" =>
                    /\ Bindable
                    /\ Keys(NewItems) = [i \in DOMAIN fs |-> NameConst(fs[i].name)]
                    /\ Values(NewItems) = [i \in DOMAIN fs |-> BoundValue(i)]
             /\ last.status # "ok" => NoContainerMade
        ELSE IF CallPos = <<>>
        THEN /\ last.status = "ok"
             /\ Keys(NewItems) = [j \in DOMAIN CallKw |-> NameConst(CallKw[j].ty)]
             /\ Values(NewItems) = [j \in DOMAIN CallKw |-> CallKw[j].items[1]]
        ELSE IF Len(CallPos) = 1 /\ CallPos[1].kind = "ConstDictVariable" /\ CallKw = <<>>
        THEN /\ last.status = "ok"
             /\ Keys(NewItems) = Keys(heap[CallPos[1].val].items)
             /\ Values(NewItems) = Values(heap[CallPos[1].val].items)
        ELSE last.status = "Unsupported" /\ NoContainerMade

\* C17 witness: the dataclass Rec3 called with keywords only got an entry for
\* each of its three fields, the omitted one bound to its default
C17_Witness ==
    /\ last.op = "CustomizedDictVariable.create" /\ last.status = "ok"
    /\ CallCls = "Rec3" /\ CallPos = <<>> /\ Len(CallKw) = 2
    /\ Len(NewItems) = 3
    /\ NewItems[3].v = Const("int", 0)

\* C18 as stated: a call on a CustomizedDictVariable goes to the base
\* ConstDictVariable when the name is an unoverridden dict / OrderedDict method
\* of the class; else, for __getitem__, to_tuple, __setitem__ and __setattr__,
\* the user's function is inlined with the adapter and the arguments; every
\* other name fails as unsupported.
C18_Original ==
    (last.op \in MethodPool \cup {"__setitem__"}
        /\ heap[last.target].cls = "CustomizedDictVariable") =>
        IF getattr_cls(heap[last.target].user_cls, last.op) = "base"
        THEN LET eff == ConstDict_call_method(heap, last.target, last.op, last.args, 0) IN
             /\ last.inlined = <<>>
             /\ last.status = eff.status
             /\ eff.mutated <=> Len(last.replaced) = 1
        ELSE IF last.op \in {"__getitem__", "to_tuple", "__setitem__", "__setattr__"}
        THEN /\ last.status = "ok" /\ last.replaced = <<>>
             /\ last.inlined = <<InlinedCall(last.op, <<DictRef(last.target)>> \o last.args)>>
        ELSE last.status = "Unsupported" /\ last.inlined = <<>> /\ last.replaced = <<>>

\* the real registry and the variable of the last call on sys.modules
Registry == heap[refs.other].items

OnSysModules(ops) == last.op \in ops /\ heap[last.target].cls = "PythonSysModulesVariable"

\* the last call built the whole registry into a symbolic container
Materialized == \E i \in DOMAIN last.inlined : last.inlined[i] = BuilderCall(SysModules)

PresentInRegistry(key) == \E i \in DOMAIN Registry : Registry[i].k = key

\* C19: a result of __contains__ or get on sys.modules carries the
\* DICT_CONTAINS guard of the asked key, inverted exactly when the key is
\* absent from the real registry, and no guard on another key; neither
\* operation builds the whole registry; every other operation except
\* __getitem__ builds it and answers from the built container.
C19_SysModulesGuard ==
    /\ OnSysModules({"__contains__", "get"}) =>
          /\ ~Materialized
          /\ last.status = "ok" =>
                /\ Guard("DICT_CONTAINS", last.args[1], ~PresentInRegistry(last.args[1]))
                      \in last.rguards
                /\ \A g \in last.rguards :
                      g.kind = "DICT_CONTAINS" => g.key = last.args[1]
                /\ \A g \in last.rguards : g.kind # "DICT_KEYS"
    /\ OnSysModules({"__getitem__"}) => ~Materialized
    /\ OnSysModules(SysFallbackPool) =>
          /\ Materialized
          /\ last.op = "__len__" => last.result = Const("int", Len(Registry))

\* C19 witness: after an import filled the registry to two modules, get of a
\* registered name returned the wrapped module under the guard "contains key"
C19_Witness ==
    /\ OnSysModules({"get"}) /\ last.status = "ok"
    /\ last.result = ModuleVar(ModA)
    /\ Guard("DICT_CONTAINS", ModA, FALSE) \in last.rguards
    /\ Len(Registry) = 2

\* the last call was made on a view: its kind, and the owner's items now
OnView(op) == last.op = op /\ Len(last.args) > 0 /\ last.args[1].kind = "DictView"

ViewKind == last.args[1].ty

OwnerItems == heap[refs.self].items

\* C20: a view of d taken before d was mutated shows d's current snapshot
\* when used: its length is the number of d's entries now, and unpacking it
\* gives d's keys (or values) now, in order.
C20_ViewReflectsOwner ==
    /\ OnView("__len__") =>
          last.status = "ok" /\ last.result = Const("int", Len(OwnerItems))
    /\ OnView("unpack_var_sequence") =>
          /\ last.status = "ok"
          /\ last.result = TupleVar(IF ViewKind = "keys" THEN Keys(OwnerItems)
                                    ELSE Values(OwnerItems))

\* C20 witness: the values view taken of the empty d was unpacked after d grew
\* to two entries, and gave both values
C20_Witness ==
    /\ OnView("unpack_var_sequence") /\ ViewKind = "values"
    /\ Len(OwnerItems) = 2
    /\ last.result = TupleVar(Values(OwnerItems))

\* the keys of the adapter object o are field names of its record type, each
\* once, in the order of declaration
FieldKeysInOrder(o) ==
    LET ks == Keys(heap[o].items)
        fs == fields(heap[o].user_cls)
        Declared(k) == \E i \in DOMAIN fs : NameConst(fs[i].name) = k
        Idx(k) == CHOOSE i \in DOMAIN fs : NameConst(fs[i].name) = k
    IN /\ \A i \in DOMAIN ks : Declared(ks[i])
       /\ \A i, j \in DOMAIN ks : i < j => Idx(ks[i]) < Idx(ks[j])

\* C21 as stated: in every reachable state the keys of every DataClassVariable
\* are declared field names of its record type in declaration order, after
\* construction and after any __setattr__ / __setitem__ on it.
C21_Original ==
    \A o \in Live(refs) : heap[o].cls = "DataClassVariable" => FieldKeysInOrder(o)

\* no two entries of items have equal keys
NoDuplicateKeys(items) ==
    \A i, j \in DOMAIN items : i # j => ~SameKey(items[i].k, items[j].k)

\* C22 as stated: no container snapshot holds two equal keys; '__len__' is the
\* number of stored keys; and setItem on a mutable container with a key equal
\* to a stored key binds that key to the new value and adds no entry.
C22_Original ==
    /\ \A o \in DOMAIN heap : NoDuplicateKeys(heap[o].items)
    /\ last.op = "__len__" =>
          last.status = "ok" /\ last.result = Const("int", Len(Keys(OldItems)))
    /\ (last.op = "__setitem__" /\ heap[last.target].mutable_local
          /\ is_hashable(last.args[1]) /\ HasKey(OldItems, last.args[1])) =>
          /\ last.status = "ok"
          /\ Keys(NewItems) = Keys(OldItems)
          /\ ValueOf(NewItems, last.args[1]) = last.args[2]

\* C23 as stated: a call dispatched to a container whose mutable_local is
\* unset, a defaulting lookup of a missing key included, never calls
\* replace_all and makes no new snapshot: every reference stays on the object.
C23_Original ==
    (last.op # "" /\ last.target \in DOMAIN heap /\ ~heap[last.target].mutable_local) =>
        /\ last.replaced = <<>>
        /\ refs.self = last.target
        /\ DOMAIN heap = Live(refs)

\* C24 as stated: on a ConstDictVariable, and on a DefaultDictVariable without
\* a factory, lookup of a stored key returns the value bound to it and lookup
\* of any other hashable key fails with a key error; neither changes the
\* entries nor substitutes anything.
C24_Original ==
    (IsLookup /\ is_hashable(last.args[1])
        /\ \/ heap[last.target].cls = "ConstDictVariable"
           \/ /\ heap[last.target].cls = "DefaultDictVariable"
              /\ heap[last.target].default_factory = FNone) =>
        /\ last.replaced = <<>> /\ refs.self = last.target
        /\ IF HasKey(OldItems, last.args[1])
           THEN last.status = "ok" /\ last.result = ValueOf(OldItems, last.args[1])
           ELSE last.status = "KeyError" /\ last.result = NoValue

\* the elements of the sequence object o
Elements(h, o) == [i \in DOMAIN h[o].items |-> h[o].items[i].k]

Pairs(items) == [i \in DOMAIN items |-> TupleVar(<<items[i].k, items[i].v>>)]

\* C25: 'items' returns the (key, value) pairs and unpack_var_sequence the
\* keys of the snapshot at call time, in insertion order, and a later setItem,
\* pop or update leaves the sequence that was returned as it is.
C25_SequencesNotLive ==
    [][LET c == last'
           snapshot == heap[refs.self].items
       IN /\ c.op = "items" =>
                /\ c.status = "ok" /\ c.result = TupleVar(Pairs(snapshot))
                /\ Elements(heap', refs'.seq) = Pairs(snapshot)
          /\ c.op = "unpack_var_sequence" =>
                /\ c.status = "ok" /\ c.result = TupleVar(Keys(snapshot))
                /\ Elements(heap', refs'.seq) = Keys(snapshot)
          /\ c.op \in {"__setitem__", "pop", "update"} =>
                /\ refs'.seq = refs.seq
                /\ Elements(heap', refs'.seq) = Elements(heap, refs.seq)]_vars

\* C25 witness: a setItem gave the container a second entry after 'items' had
\* returned the pair of its only entry, and the returned sequence still holds
\* that one pair
C25_Witness ==
    /\ last.op = "__setitem__" /\ last.status = "ok"
    /\ Len(OldItems) = 1 /\ Len(NewItems) = 2
    /\ Elements(heap, refs.seq) = Pairs(OldItems)

\* a list, or a tuple holding one: a value no key can be made of
HoldsList(k) ==
    \/ k.kind = "ListVariable"
    \/ k.kind = "TupleVariable" /\ \E i \in DOMAIN k.items : k.items[i].kind = "ListVariable"

\* the calls of the last step that the container cannot carry out
ErrorCase ==
    \/ last.op \in {"__setitem__", "pop", "get", "__getitem__"} /\ HoldsList(last.args[1])
    \/ last.op = "update" /\ last.args[1].kind # "ConstDictVariable"
    \/ last.op \in UnknownPool
    \/ last.op = "__getitem__" /\ ~HoldsList(last.args[1]) /\ ~HasKey(OldItems, last.args[1])

\* C26: setItem, pop or get with an unhashable key, update with an argument
\* that is no container, a method name the container does not know and lookup
\* of an absent key all raise and return no value; and every call that raises
\* leaves the entries as they were and substitutes nothing.
C26_ErrorsReported ==
    /\ (last.op # "" /\ ErrorCase) => last.status # "ok"
    /\ (last.op # "" /\ last.status # "ok") =>
          /\ last.result = NoValue
          /\ last.replaced = <<>> /\ refs.self = last.target
          /\ NewItems = OldItems

\* C26 witness: a mutable container of one entry refused setItem with a list
\* as key and kept its entry
C26_Witness ==
    /\ last.op = "__setitem__" /\ last.args[1] = LV
    /\ last.status = "Unsupported" /\ last.result = NoValue
    /\ heap[last.target].mutable_local
    /\ Len(NewItems) = 1 /\ NewItems = OldItems

\* C27 as stated: 'get' with a hashable key returns the bound value when the
\* key is stored, with or without a default, and the default when the key is
\* not stored and a default is given; the entries stay as they are and
\* nothing is substituted, on a mutable container and on an immutable one.
C27_Original ==
    (last.op = "get" /\ heap[last.target].cls = "ConstDictVariable"
        /\ is_hashable(last.args[1])) =>
        /\ last.replaced = <<>> /\ refs.self = last.target
        /\ NewItems = OldItems
        /\ HasKey(OldItems, last.args[1]) =>
              last.status = "ok" /\ last.result = ValueOf(OldItems, last.args[1])
        /\ (~HasKey(OldItems, last.args[1]) /\ Len(last.args) = 2) =>
              last.status = "ok" /\ last.result = last.args[2]

\* the concrete module the real registry holds under key
RegisteredModule(key) ==
    Registry[CHOOSE i \in DOMAIN Registry : Registry[i].k = key].v

\* C28: on sys.modules with a constant key, get of an absent key returns the
\* given default, or the None constant when none is given, and __getitem__ of
\* an absent key raises a key error and returns no value; for a present key
\* both return the wrapping of the module registered under exactly that key.
C28_SysModulesGet ==
    (OnSysModules({"get", "__getitem__"}) /\ last.args[1].kind = "ConstantVariable") =>
        IF PresentInRegistry(last.args[1])
        THEN /\ last.status = "ok"
             /\ last.result = ModuleVar(last.args[1])
             /\ last.inlined = <<BuilderCall(RegisteredModule(last.args[1]))>>
        ELSE IF last.op = "__getitem__"
        THEN last.status = "KeyError" /\ last.result = NoValue
        ELSE /\ last.status = "ok"
             /\ last.result = IF Len(last.args) = 2 THEN last.args[2] ELSE PyNone

\* C28 witness: with two modules registered, __getitem__ of the second name
\* returned the wrapping of the second module
C28_Witness ==
    /\ OnSysModules({"__getitem__"}) /\ last.status = "ok"
    /\ Len(Registry) = 2 /\ last.args[1] = Registry[2].k
    /\ last.result = ModuleVar(Registry[2].k)

====
